---- MODULE Spec2Model ----
(***************************************************************************)
(* Model of PPS_Newaproach_V3.ino: a GPS/PPS disciplined clock served over *)
(* NTP.  setup() probes the PPS pin and starts two tasks: gpsTask runs     *)
(* readGPSTime() in a loop, ntpTask runs handleNTPRequest() in a loop, and *)
(* PPS_ISR() sets the PPSsignal latch on every rising edge.                *)
(*                                                                         *)
(* TLC integers are 32-bit signed, so a uint32_t is kept as a pair         *)
(* <<high 16 bits, low 16 bits>>.                                          *)
(***************************************************************************)
EXTENDS Integers, Sequences, FiniteSets, TLC

VARIABLES
    setupPc,        \* position of setup(): "probe", "attach", "gps", "done"
    elapsed,        \* millis() - startTime inside initPPS
    PPSsignal,      \* volatile bool PPSsignal   (the edge latch)
    PPSavailable,   \* volatile bool PPSavailable
    isrAttached,    \* attachInterrupt(..., PPS_ISR, RISING) has been called
    gps,            \* the TinyGPSPlus object: latest decoded fix + validity
    gpsPc,          \* position of gpsTask / readGPSTime
    unixTime,       \* local time_t unixTime of readGPSTime
    clock,          \* the system clock read by gettimeofday: [sec, usec]
    call,           \* what the current readGPSTime call has done so far
    ntpPc,          \* position of ntpTask / handleNTPRequest
    packetSize,     \* local int packetSize
    remote,         \* udp.remoteIP(), udp.remotePort() of the parsed packet
    requestBuffer,  \* local uint8_t requestBuffer[48]
    responseBuffer, \* local uint8_t responseBuffer[48], built up in steps
    tvRecv,         \* the first gettimeofday result of the call
    tvTx,           \* the second gettimeofday result of the call
    inbound,        \* datagrams queued in the UDP socket
    outbound,       \* datagrams sent, each with the request it answers
    handled,        \* log of parsePacket results of finished calls
    arrivals,       \* number of datagrams that have arrived so far
    ticks,          \* number of clock advances so far
    ppsAlive,       \* the PPS source still produces rising edges
    track           \* edge bookkeeping of the timing specification

vars == << setupPc, elapsed, PPSsignal, PPSavailable, isrAttached, gps, gpsPc,
           unixTime, clock, call, ntpPc, packetSize, remote,
           requestBuffer, responseBuffer, tvRecv, tvTx, inbound, outbound,
           handled, arrivals, ticks, ppsAlive, track >>

gpsVars == << gps, gpsPc, unixTime, call >>
ntpVars == << ntpPc, packetSize, remote, requestBuffer,
              responseBuffer, tvRecv, tvTx, outbound, handled >>
setupVars == << setupPc, elapsed, PPSavailable, isrAttached >>
envVars == << inbound, arrivals, ticks, ppsAlive >>

(***************************************************************************)
(* Bounds of the model.                                                    *)
(***************************************************************************)
MaxDatagrams == 1
MaxTicks == 1
MaxEdges == 3

(***************************************************************************)
(* Program constants.                                                      *)
(***************************************************************************)
CORRECTION_FACTOR == 0
ProbeWindowMs == 1500
NtpPacketLen == 48
UsecPerSec == 1000000
\* 2208988800UL = 0x83AA7E80, as two 16-bit halves
NtpOffsetHi == 33706
NtpOffsetLo == 32384


(***************************************************************************)
(* The GNSS fix held by the TinyGPSPlus object.                            *)
(***************************************************************************)
Fix(dv, tv, y, mo, d, h, mi, s) ==
    [dateValid |-> dv, timeValid |-> tv, year |-> y, month |-> mo, day |-> d,
     hour |-> h, minute |-> mi, second |-> s]

\* The object before any sentence was decoded: nothing valid, all fields 0.
NoFix == Fix(FALSE, FALSE, 2000, 0, 0, 0, 0, 0)

IsLeap(y) == (y % 4 = 0 /\ y % 100 # 0) \/ y % 400 = 0

DaysInMonth(y, m) ==
    IF m = 2 THEN (IF IsLeap(y) THEN 29 ELSE 28)
    ELSE IF m \in {4, 6, 9, 11} THEN 30 ELSE 31

\* Fixes delivered in the concurrent specification: one valid, one with an
\* invalid date, one with an invalid time.
Fixes == { Fix(TRUE, TRUE, 2024, 1, 1, 0, 0, 0),
           Fix(FALSE, TRUE, 2024, 1, 1, 0, 0, 1),
           Fix(TRUE, FALSE, 2024, 1, 1, 0, 0, 1) }

\* Calendar instants used by the calendar-conversion specification.
CalYears == { 2000, 2023, 2024, 2036, 2037 }
CalDays == { 1, 15, 28, 29, 30, 31 }
CalHours == { 0, 12, 23 }
CalMinSec == { 0, 59 }

CalDates == { ymd \in CalYears \X (1..12) \X CalDays :
                ymd[3] <= DaysInMonth(ymd[1], ymd[2]) }

CalFixes == { Fix(TRUE, TRUE, ymd[1], ymd[2], ymd[3], h, mi, s) :
                ymd \in CalDates,
                h \in CalHours, mi \in CalMinSec, s \in CalMinSec }
              \cup { Fix(FALSE, TRUE, 2024, 1, 1, 0, 0, 0),
                     Fix(TRUE, FALSE, 2024, 1, 1, 0, 0, 0) }

(***************************************************************************)
(* mktime() of the C library with TZ unset (UTC, tm_isdst = 0): days       *)
(* before the month within the year, plus the days of every year since     *)
(* 1970, times 86400, plus the time of day.                                *)
(***************************************************************************)
DaysBeforeMonth(m) ==
    << 0, 31, 59, 90, 120, 151, 181, 212, 243, 273, 304, 334 >>[m + 1]

DaysInYear(y) == IF IsLeap(y) THEN 366 ELSE 365

RECURSIVE DaysOfYears(_, _)
DaysOfYears(from, to) ==
    IF from >= to THEN 0 ELSE DaysInYear(from) + DaysOfYears(from + 1, to)

\* tm is [tm_year, tm_mon, tm_mday, tm_hour, tm_min, tm_sec]
Mktime(tm) ==
    LET year == tm.tm_year + 1900
        days == tm.tm_mday - 1 + DaysBeforeMonth(tm.tm_mon)
                + (IF tm.tm_mon > 1 /\ IsLeap(year) THEN 1 ELSE 0)
                + DaysOfYears(1970, year)
    IN  days * 86400 + tm.tm_hour * 3600 + tm.tm_min * 60 + tm.tm_sec

\* The struct tm filled in by readGPSTime from the fix.
TmOf(f) ==
    [tm_year |-> f.year - 1900, tm_mon |-> f.month - 1, tm_mday |-> f.day,
     tm_hour |-> f.hour, tm_min |-> f.minute, tm_sec |-> f.second]

\* Variant without the one-second compensation.
UnixTimeOfMut(f) == Mktime(TmOf(f))

\* time_t unixTime = mktime(&timeinfo) + 1;
UnixTimeOf(f) == Mktime(TmOf(f)) + 1

\* Variant that tests the time only.
FixValidMut(f) == f.timeValid

\* gps.time.isValid() && gps.date.isValid()
FixValid(f) == f.timeValid /\ f.dateValid

\* Variants that skip the edge wait, or wait whether or not PPS was found.
WaitsForEdgeNever(avail) == FALSE

WaitsForEdgeAlways(avail) == TRUE

\* if (PPSavailable): does this call wait for the edge latch
WaitsForEdge(avail) == avail

\* Variant that leaves the latch set.
ClearedLatchMut == TRUE

\* PPSsignal = false;
ClearedLatch == FALSE

\* Variant in which the handler does not latch the edge.
LatchedEdgeMut == FALSE

\* PPSsignal = true;
LatchedEdge == TRUE

\* Variant that gives up the wait at once (a wait with a zero timeout).
EdgeSeenMut(sig) == TRUE

\* !PPSsignal is false: the wait loop ends when the latch is read as set
EdgeSeen(sig) == sig

\* tv.tv_sec = unixTime; tv.tv_usec = CORRECTION_FACTOR;
TimevalOf(t) == [sec |-> t, usec |-> CORRECTION_FACTOR]

\* What the current readGPSTime call has done so far: read the latch, seen
\* it set, cleared it, called settimeofday; whether an edge fired since it
\* cleared the latch.
NewCall ==
    [readLatch |-> FALSE, sawSet |-> FALSE, cleared |-> FALSE,
     wrote |-> FALSE, edgeAfterClear |-> FALSE]

\* Edge bookkeeping, kept by the timing specification only.  Edges are
\* numbered 1, 2, ... in the order they fire, edge k marking true second k.
\*   edges      number of the last edge that fired
\*   latest     second of the newest sentence in the serial port (0: none)
\*   setBy      edge that set the latch now set (0: the latch is clear)
\*   clearedAt  last edge that had fired when the latch was last cleared
\*   released   number of edge waits the latch has released
\*   began      last edge that had fired when the current call computed
\*              unixTime
\*   seen       last edge that had fired when the current call read the
\*              latch as set
\*   releasedBy edge that had set the latch the current call read as set
NoTrack ==
    [edges |-> 0, latest |-> 0, setBy |-> 0, clearedAt |-> 0, released |-> 0,
     began |-> 0, seen |-> 0, releasedBy |-> 0]

(***************************************************************************)
(* NTP wire arithmetic of handleNTPRequest.                                *)
(***************************************************************************)
\* Variant that drops the carry out of the low 16 bits.
NtpSecondsMut(sec) ==
    LET lo == (sec % 65536) + NtpOffsetLo
        hi == (sec \div 65536) + NtpOffsetHi
    IN  << hi % 65536, lo % 65536 >>

\* uint32_t recvSec = tv.tv_sec + 2208988800UL;  (unsigned, modulo 2^32)
NtpSeconds(sec) ==
    LET lo == (sec % 65536) + NtpOffsetLo
        hi == (sec \div 65536) + NtpOffsetHi + (lo \div 65536)
    IN  << hi % 65536, lo % 65536 >>

\* uint32_t recvFrac = (uint32_t)((double)tv.tv_usec * (4294967296.0 / 1000000.0));
\* The conversion to uint32_t truncates.  For every tv_usec in 0..999999 the
\* truncated double product equals floor(usec * 2^32 / 1000000), computed
\* here by long division, one base-256 digit at a time.
NtpFraction(usec) ==
    LET s1 == usec * 256
        d1 == s1 \div UsecPerSec
        s2 == (s1 % UsecPerSec) * 256
        d2 == s2 \div UsecPerSec
        s3 == (s2 % UsecPerSec) * 256
        d3 == s3 \div UsecPerSec
        s4 == (s3 % UsecPerSec) * 256
        d4 == s4 \div UsecPerSec
    IN  << d1 * 256 + d2, d3 * 256 + d4 >>

\* (x >> shift) & 0xFF for shift in {24, 16, 8, 0}
ByteOf(x, shift) ==
    CASE shift = 24 -> x[1] \div 256
      [] shift = 16 -> x[1] % 256
      [] shift = 8  -> x[2] \div 256
      [] shift = 0  -> x[2] % 256

\* The eight bytes written for one timestamp: seconds, then fraction.
TimestampBytes(sec32, frac32) ==
    << ByteOf(sec32, 24), ByteOf(sec32, 16), ByteOf(sec32, 8), ByteOf(sec32, 0),
       ByteOf(frac32, 24), ByteOf(frac32, 16), ByteOf(frac32, 8), ByteOf(frac32, 0) >>

\* Variant with version 3 in the first byte (0x1C).
HeaderBytesMut(req) ==
    << 28, 1, req[3], 250, 0, 0, 0, 0, 0, 0, 0, 0, 76, 79, 67, 76 >>

\* responseBuffer[0..15]: LI/VN/Mode, stratum, poll, precision (-6 as a
\* byte), root delay, root dispersion, reference identifier "LOCL".
HeaderBytes(req) ==
    << 36, 1, req[3], 250, 0, 0, 0, 0, 0, 0, 0, 0, 76, 79, 67, 76 >>

\* Variant that copies the request's receive timestamp (offset 32).
OriginBytesMut(req) == SubSeq(req, 33, 40)

\* responseBuffer[24 + i] = requestBuffer[40 + i], i = 0..7
OriginBytes(req) == SubSeq(req, 41, 48)

\* Variant in which handleNTPRequest is called from the loop of gpsTask,
\* between two readGPSTime calls.
NtpTaskRunsMut(g) == g = "idle"

\* xTaskCreate(ntpTask, ...): ntpTask is a task of its own, so it calls
\* handleNTPRequest wherever gpsTask (at position g) is.
NtpTaskRuns(g) == TRUE

\* Variant that accepts any non-empty packet.
AcceptsPacketMut(n) == n > 0

\* if (packetSize >= 48)
AcceptsPacket(n) == n >= NtpPacketLen

\* Variant that replies to the NTP port instead of the sender's port.
ReplyDestMut(r) == [ip |-> r.ip, port |-> 123]

\* Variant that reuses the first reading for the transmit timestamp.
TxClockMut(first, now) == first

\* the second gettimeofday(&tv, NULL): the clock as it stands now
TxClock(first, now) == now

\* udp.beginPacket(udp.remoteIP(), udp.remotePort())
ReplyDest(r) == [ip |-> r.ip, port |-> r.port]

(***************************************************************************)
(* Datagrams offered to the UDP socket.  Pattern 1 is an NTP v4 client     *)
(* request with poll 6 and transmit timestamp AA BB CC DD EE FF 00 11;     *)
(* pattern 2 has version 7, mode 7 and no NTP structure at all.            *)
(***************************************************************************)
PatternByte(p, off) ==
    IF p = 1
    THEN CASE off = 0 -> 35
           [] off = 2 -> 6
           [] off \in 40..47 ->
                << 170, 187, 204, 221, 238, 255, 0, 17 >>[off - 39]
           [] OTHER -> off
    ELSE IF off = 0 THEN 255 ELSE 200 - off

PatternData(p, n) == [i \in 1..n |-> PatternByte(p, i - 1)]

Senders == << [ip |-> "10.0.0.7", port |-> 123],
              [ip |-> "10.0.0.9", port |-> 40123] >>

Datagram(p, n) ==
    [data |-> PatternData(p, n), ip |-> Senders[p].ip, port |-> Senders[p].port]

Datagrams == { Datagram(1, 48), Datagram(1, 47), Datagram(2, 56) }

NoRemote == [ip |-> "0.0.0.0", port |-> 0]

\* Advances of the running clock between two observations, in microseconds.
TickSteps == { 1, 999999 }

Advance(c, d) ==
    [sec |-> c.sec + (c.usec + d) \div UsecPerSec,
     usec |-> (c.usec + d) % UsecPerSec]

(***************************************************************************)
(* Initial state: power-on, setup() about to run initPPS.                  *)
(***************************************************************************)
Init ==
    /\ setupPc = "probe"
    /\ elapsed = 0
    /\ PPSsignal = FALSE
    /\ PPSavailable = FALSE
    /\ isrAttached = FALSE
    /\ gps = NoFix
    /\ gpsPc = "idle"
    /\ unixTime = 0
    /\ clock = [sec |-> 0, usec |-> 0]
    /\ call = NewCall
    /\ ntpPc = "idle"
    /\ packetSize = 0
    /\ remote = NoRemote
    /\ requestBuffer = << >>
    /\ responseBuffer = << >>
    /\ tvRecv = << >>
    /\ tvTx = << >>
    /\ inbound = << >>
    /\ outbound = << >>
    /\ handled = << >>
    /\ arrivals = 0
    /\ ticks = 0
    /\ ppsAlive = TRUE
    /\ track = NoTrack

(***************************************************************************)
(* setup(): initPPS, initGPS, then the two tasks are created.              *)
(***************************************************************************)
\* while (millis() - startTime < 1500) { if (digitalRead(pin) == HIGH) ... }
ProbeSample ==
    /\ setupPc = "probe"
    /\ elapsed < ProbeWindowMs
    /\ \E level \in { "LOW", "HIGH" } :
          IF level = "HIGH"
          THEN /\ PPSavailable' = TRUE
               /\ setupPc' = "attach"
               /\ elapsed' = elapsed
          ELSE /\ elapsed' = elapsed + 1
               /\ UNCHANGED << PPSavailable, setupPc >>
    /\ UNCHANGED << PPSsignal, isrAttached, gpsVars, clock, ntpVars,
                    envVars, track >>

\* Variant in which the probe reports a signal although none was sampled.
ProbeTimeoutMut ==
    /\ setupPc = "probe"
    /\ elapsed >= ProbeWindowMs
    /\ setupPc' = "attach"
    /\ PPSavailable' = TRUE
    /\ UNCHANGED << elapsed, PPSsignal, isrAttached, gpsVars,
                    clock, ntpVars, envVars, track >>

\* The window has elapsed without a HIGH sample: PPSavailable stays false.
ProbeTimeout ==
    /\ setupPc = "probe"
    /\ elapsed >= ProbeWindowMs
    /\ setupPc' = "attach"
    /\ UNCHANGED << elapsed, PPSavailable, PPSsignal, isrAttached, gpsVars,
                    clock, ntpVars, envVars, track >>

\* if (PPSavailable) attachInterrupt(..., PPS_ISR, RISING);
AttachPps ==
    /\ setupPc = "attach"
    /\ isrAttached' = PPSavailable
    /\ setupPc' = "gps"
    /\ elapsed' = 0
    /\ UNCHANGED << PPSavailable, PPSsignal, gpsVars, clock,
                    ntpVars, envVars, track >>

\* initGPS feeds the decoder until the time is valid or 30 s have passed.
InitGPS(F) ==
    /\ setupPc = "gps"
    /\ gps' \in F \cup { NoFix }
    /\ setupPc' = "done"
    /\ UNCHANGED << elapsed, PPSavailable, PPSsignal, isrAttached, gpsPc,
                    unixTime, call, clock, ntpVars, envVars, track >>

(***************************************************************************)
(* PPS_ISR: runs on every rising edge once the interrupt is attached, as   *)
(* long as the PPS source produces edges.                                  *)
(***************************************************************************)
\* Variant in which the handler also restarts the microseconds of the clock.
PpsIsrCoreMut ==
    /\ isrAttached
    /\ ppsAlive
    /\ PPSsignal' = LatchedEdge
    /\ clock' = [clock EXCEPT !.usec = 0]
    /\ call' = [call EXCEPT !.edgeAfterClear = call.cleared]
    /\ UNCHANGED << setupVars, gps, gpsPc, unixTime, ntpVars, envVars >>

\* void IRAM_ATTR PPS_ISR() { PPSsignal = true; }
PpsIsrCore ==
    /\ isrAttached
    /\ ppsAlive
    /\ PPSsignal' = LatchedEdge
    /\ call' = [call EXCEPT !.edgeAfterClear = call.cleared]
    /\ UNCHANGED << setupVars, gps, gpsPc, unixTime, clock, ntpVars,
                    envVars >>

PPS_ISR == PpsIsrCore /\ UNCHANGED track

(***************************************************************************)
(* gpsTask: while (1) { readGPSTime(); vTaskDelay(10 ms); }                *)
(* A step ends at each access to state shared with the interrupt or with   *)
(* ntpTask: the latch read, the latch clear, settimeofday.                 *)
(***************************************************************************)
\* Lines 277-290: drain the serial port into the decoder (F: the fixes the
\* decoder can hold afterwards), test the validity of the fix, compute
\* unixTime, test PPSavailable.
GpsBeginCore(F) ==
    /\ setupPc = "done"
    /\ gpsPc = "idle"
    /\ gps' \in F
    /\ IF FixValid(gps')
       THEN /\ unixTime' = UnixTimeOf(gps')
            /\ gpsPc' = IF WaitsForEdge(PPSavailable) THEN "wait" ELSE "set"
       ELSE /\ unixTime' = unixTime
            /\ gpsPc' = "ret"
    /\ UNCHANGED << setupVars, PPSsignal, call, clock, ntpVars,
                    envVars >>

\* The serial port holds a sentence of F, or nothing new.
GpsBegin(F) == GpsBeginCore(F \cup { gps }) /\ UNCHANGED track

\* while (!PPSsignal) {}   one evaluation of the loop condition
GpsWaitCore ==
    /\ gpsPc = "wait"
    /\ call' = [call EXCEPT !.readLatch = TRUE, !.sawSet = EdgeSeen(PPSsignal)]
    /\ gpsPc' = IF EdgeSeen(PPSsignal) THEN "clear" ELSE "wait"
    /\ UNCHANGED << setupVars, PPSsignal, gps, unixTime, clock,
                    ntpVars, envVars >>

GpsWait == GpsWaitCore /\ UNCHANGED track

\* PPSsignal = false;
GpsClearCore ==
    /\ gpsPc = "clear"
    /\ PPSsignal' = ClearedLatch
    /\ call' = [call EXCEPT !.cleared = TRUE, !.edgeAfterClear = FALSE]
    /\ gpsPc' = "set"
    /\ UNCHANGED << setupVars, gps, unixTime, clock, ntpVars,
                    envVars >>

GpsClear == GpsClearCore /\ UNCHANGED track

\* tv.tv_sec = unixTime; tv.tv_usec = CORRECTION_FACTOR;
\* settimeofday(&tv, NULL);
GpsSet ==
    /\ gpsPc = "set"
    /\ clock' = TimevalOf(unixTime)
    /\ call' = [call EXCEPT !.wrote = TRUE]
    /\ gpsPc' = "ret"
    /\ UNCHANGED << setupVars, PPSsignal, gps, unixTime, ntpVars, envVars,
                    track >>

\* readGPSTime returns; gpsTask sleeps in vTaskDelay until the next call
GpsReturnCore ==
    /\ gpsPc = "ret"
    /\ gpsPc' = "idle"
    /\ unixTime' = 0
    /\ call' = NewCall
    /\ UNCHANGED << setupVars, PPSsignal, gps, clock, ntpVars,
                    envVars >>

GpsReturn == GpsReturnCore /\ UNCHANGED track

(***************************************************************************)
(* ntpTask: while (1) { handleNTPRequest(); vTaskDelay(100 ms); }          *)
(* A step ends at each access to the socket or to the system clock.        *)
(***************************************************************************)
\* Lines 303-307: packetSize = udp.parsePacket(); if (packetSize >= 48)
\* udp.read(requestBuffer, 48).  parsePacket makes the next queued datagram
\* current and returns its length, or 0 when nothing is queued; read copies
\* at most 48 bytes, and bytes of requestBuffer the packet does not reach
\* keep their uninitialized value.
NtpParse ==
    /\ setupPc = "done"
    /\ ntpPc = "idle"
    /\ NtpTaskRuns(gpsPc)
    /\ IF inbound = << >>
       THEN /\ packetSize' = 0
            /\ UNCHANGED << remote, inbound, handled, requestBuffer >>
       ELSE /\ packetSize' = Len(Head(inbound).data)
            /\ remote' = [ip |-> Head(inbound).ip, port |-> Head(inbound).port]
            /\ inbound' = Tail(inbound)
            /\ handled' = Append(handled, Head(inbound))
            /\ IF AcceptsPacket(packetSize')
               THEN \E fill \in { 0, 255 } :
                      requestBuffer' =
                        [i \in 1..NtpPacketLen |->
                           IF i <= packetSize' THEN Head(inbound).data[i]
                           ELSE fill]
               ELSE requestBuffer' = requestBuffer
    /\ ntpPc' = IF AcceptsPacket(packetSize') THEN "recv" ELSE "ret"
    /\ UNCHANGED << setupVars, PPSsignal, gpsVars, clock,
                    responseBuffer, tvRecv, tvTx, outbound, arrivals, ticks,
                    ppsAlive, track >>

\* Lines 308-346: gettimeofday(&tv, NULL); recvSec, recvFrac;
\* responseBuffer[0..39]: header, reference, originate, receive timestamps
NtpRecv ==
    /\ ntpPc = "recv"
    /\ tvRecv' = clock
    /\ LET recvSec == NtpSeconds(clock.sec)
           recvFrac == NtpFraction(clock.usec)
       IN  responseBuffer' = HeaderBytes(requestBuffer)
                               \o TimestampBytes(recvSec, recvFrac)
                               \o OriginBytes(requestBuffer)
                               \o TimestampBytes(recvSec, recvFrac)
    /\ ntpPc' = "tx"
    /\ UNCHANGED << setupVars, PPSsignal, gpsVars, clock, packetSize,
                    remote, requestBuffer, tvTx, outbound, handled, envVars,
                    track >>

\* Lines 348-358: gettimeofday(&tv, NULL); txSec, txFrac;
\* responseBuffer[40..47]
NtpTx ==
    /\ ntpPc = "tx"
    /\ tvTx' = TxClock(tvRecv, clock)
    /\ LET txSec == NtpSeconds(tvTx'.sec)
           txFrac == NtpFraction(tvTx'.usec)
       IN  responseBuffer' = responseBuffer \o TimestampBytes(txSec, txFrac)
    /\ ntpPc' = "send"
    /\ UNCHANGED << setupVars, PPSsignal, gpsVars, clock, packetSize,
                    remote, requestBuffer, tvRecv, outbound, handled,
                    envVars, track >>

\* udp.beginPacket(udp.remoteIP(), udp.remotePort());
\* udp.write(responseBuffer, 48); udp.endPacket();
NtpSend ==
    /\ ntpPc = "send"
    /\ outbound' = Append(outbound,
                          [data |-> SubSeq(responseBuffer, 1, NtpPacketLen),
                           ip |-> ReplyDest(remote).ip,
                           port |-> ReplyDest(remote).port,
                           rx |-> tvRecv, tx |-> tvTx])
    /\ ntpPc' = "ret"
    /\ UNCHANGED << setupVars, PPSsignal, gpsVars, clock, packetSize,
                    remote, requestBuffer, responseBuffer, tvRecv, tvTx,
                    handled, envVars, track >>

\* handleNTPRequest returns (its locals go out of scope); ntpTask sleeps in
\* vTaskDelay until the next call
NtpReturn ==
    /\ ntpPc = "ret"
    /\ ntpPc' = "idle"
    /\ packetSize' = 0
    /\ requestBuffer' = << >>
    /\ responseBuffer' = << >>
    /\ tvRecv' = << >>
    /\ tvTx' = << >>
    /\ UNCHANGED << setupVars, PPSsignal, gpsVars, clock, remote,
                    outbound, handled, envVars, track >>

(***************************************************************************)
(* Environment: datagrams arrive at the socket, the system clock runs.     *)
(* Neither is observed before the tasks start, so both are modelled from   *)
(* the end of setup on.                                                    *)
(***************************************************************************)
Arrive ==
    /\ setupPc = "done"
    /\ arrivals < MaxDatagrams
    /\ \E d \in Datagrams : inbound' = Append(inbound, d)
    /\ arrivals' = arrivals + 1
    /\ UNCHANGED << setupVars, PPSsignal, gpsVars, clock, ntpVars,
                    ticks, ppsAlive, track >>

Tick ==
    /\ setupPc = "done"
    /\ ticks < MaxTicks
    /\ \E d \in TickSteps : clock' = Advance(clock, d)
    /\ ticks' = ticks + 1
    /\ UNCHANGED << setupVars, PPSsignal, gpsVars, ntpVars, inbound,
                    arrivals, ppsAlive, track >>

(***************************************************************************)
(* The program: setup, the two tasks, the interrupt and the environment.   *)
(***************************************************************************)
Next ==
    \/ ProbeSample
    \/ ProbeTimeout
    \/ AttachPps
    \/ InitGPS(Fixes)
    \/ PPS_ISR
    \/ GpsBegin(Fixes)
    \/ GpsWait
    \/ GpsClear
    \/ GpsSet
    \/ GpsReturn
    \/ NtpParse
    \/ NtpRecv
    \/ NtpTx
    \/ NtpSend
    \/ NtpReturn
    \/ Arrive
    \/ Tick

Spec == Init /\ [][Next]_vars

(***************************************************************************)
(* Calendar specification: the receiver delivers one fix while initGPS     *)
(* runs, no further sentence arrives, and gpsTask converts that fix.       *)
(***************************************************************************)
NextCal ==
    \/ ProbeSample
    \/ ProbeTimeout
    \/ AttachPps
    \/ InitGPS(CalFixes)
    \/ PPS_ISR
    \/ GpsBegin({})
    \/ GpsWait
    \/ GpsClear
    \/ GpsSet
    \/ GpsReturn

SpecCal == Init /\ [][NextCal]_vars

(***************************************************************************)
(* Timing specification: gpsTask against the PPS edges and the sentences   *)
(* of the receiver, with the edges numbered.  Edge k marks true second k;  *)
(* the sentence that reports second k reaches the serial port after edge k *)
(* and before edge k + 1.  The PPS source may fail at any moment.          *)
(* ntpTask does not take part.                                             *)
(***************************************************************************)
\* The fix decoded from the sentence that reports second s.
FixOfSecond(s) == Fix(TRUE, TRUE, 2024, 1, 1, 0, 0, s)

\* What the decoder holds once the serial port is drained: the fix of the
\* newest sentence, or what it held before if no sentence has arrived yet.
DecodedFix == IF track.latest = 0 THEN gps ELSE FixOfSecond(track.latest)

\* The PPS source stops producing edges (cable fault, receiver fault).
PpsFail ==
    /\ ppsAlive
    /\ ppsAlive' = FALSE
    /\ UNCHANGED << setupVars, PPSsignal, gpsVars, clock, ntpVars, inbound,
                    arrivals, ticks, track >>

\* The sentence for the second of the last edge reaches the serial port.
Sentence ==
    /\ track.latest < track.edges
    /\ track' = [track EXCEPT !.latest = track.edges]
    /\ UNCHANGED << setupVars, PPSsignal, gpsVars, clock, ntpVars, envVars >>

\* The next rising edge: PPS_ISR runs.
PpsEdge ==
    /\ track.edges < MaxEdges
    /\ track.edges = 0 \/ track.latest = track.edges
    /\ PpsIsrCore
    /\ track' = [track EXCEPT !.edges = track.edges + 1,
                              !.setBy = IF PPSsignal THEN track.setBy
                                        ELSE track.edges + 1]

GpsBeginPps ==
    /\ GpsBeginCore({ DecodedFix })
    /\ track' = [track EXCEPT !.began = track.edges]

GpsWaitPps ==
    /\ GpsWaitCore
    /\ track' = IF call'.sawSet
                THEN [track EXCEPT !.seen = track.edges,
                                   !.releasedBy = track.setBy,
                                   !.released = IF track.released > MaxEdges
                                                THEN track.released
                                                ELSE track.released + 1]
                ELSE track

GpsClearPps ==
    /\ GpsClearCore
    /\ track' = [track EXCEPT !.clearedAt = track.edges, !.setBy = 0]

GpsReturnPps ==
    /\ GpsReturnCore
    /\ track' = [track EXCEPT !.began = 0, !.seen = 0, !.releasedBy = 0]

NextPps ==
    \/ ProbeSample
    \/ ProbeTimeout
    \/ AttachPps
    \/ InitGPS({})
    \/ PpsFail
    \/ Sentence
    \/ PpsEdge
    \/ GpsBeginPps
    \/ GpsWaitPps
    \/ GpsClearPps
    \/ GpsSet
    \/ GpsReturnPps

SpecPps == Init /\ [][NextPps]_vars

(***************************************************************************)
(* Scheduling.  setup creates the two tasks on core 0 with priority 1;     *)
(* FreeRTOS time-slices tasks of equal priority, so each task that can     *)
(* take a step eventually takes one, also while the other one spins.       *)
(***************************************************************************)
GpsTaskStep == GpsBegin(Fixes) \/ GpsWait \/ GpsClear \/ GpsSet \/ GpsReturn

NtpTaskStep == NtpParse \/ NtpRecv \/ NtpTx \/ NtpSend \/ NtpReturn

\* gpsTask with a PPS source that never stops: an edge that would change
\* the latch eventually fires.
NextEdges ==
    \/ ProbeSample
    \/ ProbeTimeout
    \/ AttachPps
    \/ InitGPS(Fixes)
    \/ PPS_ISR
    \/ GpsBegin(Fixes)
    \/ GpsWait
    \/ GpsClear
    \/ GpsSet
    \/ GpsReturn

SpecEdges ==
    Init /\ [][NextEdges]_vars /\ WF_vars(PPS_ISR) /\ WF_vars(GpsTaskStep)

\* Both tasks, with a PPS source that may stop and datagrams arriving; the
\* clock is not advanced, so it holds the value last set.
NextTasks ==
    \/ ProbeSample
    \/ ProbeTimeout
    \/ AttachPps
    \/ InitGPS(Fixes)
    \/ PPS_ISR
    \/ PpsFail
    \/ GpsBegin(Fixes)
    \/ GpsWait
    \/ GpsClear
    \/ GpsSet
    \/ GpsReturn
    \/ NtpParse
    \/ NtpRecv
    \/ NtpTx
    \/ NtpSend
    \/ NtpReturn
    \/ Arrive

SpecTasks ==
    Init /\ [][NextTasks]_vars /\ WF_vars(GpsTaskStep) /\ WF_vars(NtpTaskStep)

(***************************************************************************)
(* Encoding specification: ntpTask answers datagrams while the clock       *)
(* stands at, and runs on from, one of a set of values.                    *)
(***************************************************************************)
EncSeconds == { 0, 1704067201, 2085978495, 2085978496, 2145916799 }
EncMicros == { 0, 1, 2, 233, 15625, 499999, 500000, 999999 }

InitEnc ==
    /\ setupPc = "done"
    /\ elapsed = 0
    /\ PPSsignal = FALSE
    /\ PPSavailable = FALSE
    /\ isrAttached = FALSE
    /\ gps = NoFix
    /\ gpsPc = "idle"
    /\ unixTime = 0
    /\ clock \in [sec : EncSeconds, usec : EncMicros]
    /\ call = NewCall
    /\ ntpPc = "idle"
    /\ packetSize = 0
    /\ remote = NoRemote
    /\ requestBuffer = << >>
    /\ responseBuffer = << >>
    /\ tvRecv = << >>
    /\ tvTx = << >>
    /\ inbound = << >>
    /\ outbound = << >>
    /\ handled = << >>
    /\ arrivals = 0
    /\ ticks = 0
    /\ ppsAlive = TRUE
    /\ track = NoTrack

NextEnc ==
    \/ NtpParse
    \/ NtpRecv
    \/ NtpTx
    \/ NtpSend
    \/ NtpReturn
    \/ Arrive
    \/ Tick

SpecEnc == InitEnc /\ [][NextEnc]_vars

(***************************************************************************)
(* Properties.                                                             *)
(***************************************************************************)
\* The datagrams taken up so far that are at least 48 bytes long, in order.
LongEnough(d) == Len(d.data) >= 48
Accepted == SelectSeq(handled, LongEnough)

\* The k-th reply and the request it answers.
Replies == { k \in 1..Len(outbound) : k <= Len(Accepted) }

\* C1: in a readGPSTime call whose fix has an invalid date or an invalid
\* time, no step of the call changes the system clock and the call has not
\* called settimeofday, whatever PPSavailable and PPSsignal are.
C1_InvalidFixLeavesClock ==
    [][ (gpsPc' # gpsPc /\ ~(gps'.dateValid /\ gps'.timeValid))
          => (clock' = clock /\ ~call'.wrote /\ gpsPc' \in { "ret", "idle" }) ]_vars

\* A call with an invalid date returns while the clock stands at a value set
\* by an earlier call.
C1_Witness ==
    /\ gpsPc = "ret"
    /\ ~gps.dateValid
    /\ ~call.wrote
    /\ clock = [sec |-> 1704067201, usec |-> 0]

\* C2: a reply is sent only in a handleNTPRequest call whose packetSize is at
\* least 48; a call with a shorter datagram, or with none, goes straight to
\* its return.
C2_ShortDatagramNoReply ==
    [][ /\ (outbound' # outbound => packetSize >= 48)
        /\ (ntpPc = "idle" /\ ntpPc' # "idle" /\ packetSize' < 48
              => ntpPc' = "ret" /\ outbound' = outbound)
        /\ (ntpPc = "ret" /\ ntpPc' = "idle" /\ packetSize < 48
              => outbound' = outbound) ]_vars

\* A call has taken up a 47-byte datagram and is returning, nothing sent.
C2_Witness ==
    /\ ntpPc = "ret"
    /\ packetSize = 47
    /\ Len(handled) = 1
    /\ outbound = << >>

\* C3: bytes 24..31 of every reply are bytes 40..47 of the request it answers.
C3_OriginEchoed ==
    \A k \in Replies :
        SubSeq(outbound[k].data, 25, 32) = SubSeq(Accepted[k].data, 41, 48)

\* A reply whose two clock reads differ (the clock was set or advanced in
\* between) carries the origin timestamp AA BB CC DD EE FF 00 11.
C3_Witness ==
    /\ outbound # << >>
    /\ outbound[1].rx # outbound[1].tx
    /\ outbound[1].tx.sec = 1704067201
    /\ SubSeq(outbound[1].data, 25, 32)
         = << 170, 187, 204, 221, 238, 255, 0, 17 >>

\* C4: every reply starts with LI 0, version 4, mode 4, stratum 1, the poll
\* byte of its request, zero root delay and root dispersion, and "LOCL".
C4_FixedHeader ==
    \A k \in Replies :
        LET r == outbound[k].data IN
        /\ r[1] = 36
        /\ r[1] \div 64 = 0
        /\ (r[1] \div 8) % 8 = 4
        /\ r[1] % 8 = 4
        /\ r[2] = 1
        /\ r[3] = Accepted[k].data[3]
        /\ \A i \in 5..12 : r[i] = 0
        /\ SubSeq(r, 13, 16) = << 76, 79, 67, 76 >>

\* The reply to the version-4 client request with poll 6.
C4_Witness ==
    /\ outbound # << >>
    /\ handled[1] = Datagram(1, 48)
    /\ outbound[1].data[3] = 6

(***************************************************************************)
(* Reading a timestamp back from the wire, for C5.  The checks undo the    *)
(* encoding: seconds by subtraction, the fraction by multiplication.       *)
(***************************************************************************)
\* bytes i, i+1 of b as a 16-bit big-endian number
Be16(b, i) == b[i] * 256 + b[i + 1]

\* (V - S) mod 2^32 for the 32-bit big-endian number V at b[i..i+3]
WireMinusSeconds(b, i, S) ==
    LET lo == Be16(b, i + 2) - (S % 65536)
        borrow == IF lo < 0 THEN 1 ELSE 0
        hi == Be16(b, i) - (S \div 65536) - borrow
    IN  << (hi + 65536) % 65536, (lo + 65536) % 65536 >>

\* V >= S: the subtraction does not wrap
WireAtLeastSeconds(b, i, S) ==
    LET lo == Be16(b, i + 2) - (S % 65536)
        borrow == IF lo < 0 THEN 1 ELSE 0
    IN  Be16(b, i) - (S \div 65536) - borrow >= 0

\* F * 1000000 for the 32-bit big-endian number F at b[i..i+3], as
\* << multiple of 2^32, high 16 bits, low 16 bits >>
WireTimesMillion(b, i) ==
    LET t0 == b[i + 3] * UsecPerSec
        t1 == b[i + 2] * UsecPerSec + t0 \div 256
        t2 == b[i + 1] * UsecPerSec + t1 \div 256
        t3 == b[i] * UsecPerSec + t2 \div 256
    IN  << t3 \div 256, (t3 % 256) * 256 + (t2 % 256),
           (t1 % 256) * 256 + (t0 % 256) >>

\* F = floor(U * 2^32 / 1000000): 0 <= U * 2^32 - F * 1000000 < 1000000.
\* 2^32 - 1000000 = 0xFFF0BDC0 = << 65520, 48576 >>
IsFloorFraction(b, i, U) ==
    LET p == WireTimesMillion(b, i) IN
    \/ p[1] = U /\ p[2] = 0 /\ p[3] = 0
    \/ /\ p[1] = U - 1
       /\ (p[2] > 65520 \/ (p[2] = 65520 /\ p[3] > 48576))

\* F = round(U * 2^32 / 1000000): |U * 2^32 - F * 1000000| <= 500000.
\* 500000 = << 7, 41248 >>, 2^32 - 500000 = 0xFFF85EE0 = << 65528, 24288 >>
IsRoundedFraction(b, i, U) ==
    LET p == WireTimesMillion(b, i) IN
    \/ /\ p[1] = U
       /\ (p[2] < 7 \/ (p[2] = 7 /\ p[3] <= 41248))
    \/ /\ p[1] = U - 1
       /\ (p[2] > 65528 \/ (p[2] = 65528 /\ p[3] >= 24288))

\* The timestamp at b[i..i+7] encodes tv: seconds plus 2208988800 modulo
\* 2^32, fraction truncated.
EncodesTruncated(b, i, tv) ==
    /\ WireMinusSeconds(b, i, tv.sec) = << 33706, 32384 >>
    /\ IsFloorFraction(b, i + 4, tv.usec)

\* The timestamp at b[i..i+7] encodes tv: seconds plus 2208988800, fraction
\* rounded to nearest.
EncodesRounded(b, i, tv) ==
    /\ WireMinusSeconds(b, i, tv.sec) = << 33706, 32384 >>
    /\ WireAtLeastSeconds(b, i, tv.sec)
    /\ IsRoundedFraction(b, i + 4, tv.usec)

\* C5 as stated: the reference, receive and transmit timestamps of every
\* reply hold S + 2208988800 in the high 32 bits and
\* round(U * 2^32 / 1000000) in the low 32 bits, (S, U) being the clock value
\* read for them.
C5_RoundedEncoding ==
    \A k \in 1..Len(outbound) :
        /\ EncodesRounded(outbound[k].data, 17, outbound[k].rx)
        /\ EncodesRounded(outbound[k].data, 33, outbound[k].rx)
        /\ EncodesRounded(outbound[k].data, 41, outbound[k].tx)

\* C5 amended: the high 32 bits are (S + 2208988800) mod 2^32 and the low 32
\* bits are floor(U * 2^32 / 1000000).
C5_TruncatedEncoding ==
    \A k \in 1..Len(outbound) :
        /\ EncodesTruncated(outbound[k].data, 17, outbound[k].rx)
        /\ EncodesTruncated(outbound[k].data, 33, outbound[k].rx)
        /\ EncodesTruncated(outbound[k].data, 41, outbound[k].tx)

\* A reply whose receive read is 1 us past the second (fraction 4294, where
\* rounding gives 4295) and whose transmit read is after the NTP era rolled
\* over.
C5_Witness ==
    /\ outbound # << >>
    /\ outbound[1].rx = [sec |-> 2085978495, usec |-> 1]
    /\ outbound[1].tx = [sec |-> 2085978496, usec |-> 0]
    /\ SubSeq(outbound[1].data, 33, 40) = << 255, 255, 255, 255, 0, 0, 16, 198 >>
    /\ SubSeq(outbound[1].data, 41, 48) = << 0, 0, 0, 0, 0, 0, 0, 0 >>

(***************************************************************************)
(* Days from 1970-01-01 to a date of the proleptic Gregorian calendar,     *)
(* counted in 400-year eras with the year starting in March, for C6.       *)
(***************************************************************************)
DaysFromCivil(y, m, d) ==
    LET yy == IF m <= 2 THEN y - 1 ELSE y
        era == yy \div 400
        yoe == yy - era * 400
        mp == IF m > 2 THEN m - 3 ELSE m + 9
        doy == (153 * mp + 2) \div 5 + d - 1
        doe == yoe * 365 + yoe \div 4 - yoe \div 100 + doy
    IN  era * 146097 + doe - 719468

EpochSeconds(f) ==
    DaysFromCivil(f.year, f.month, f.day) * 86400
      + f.hour * 3600 + f.minute * 60 + f.second

\* C6: when a readGPSTime call has called settimeofday, the clock holds the
\* Unix time of the fix's calendar fields plus one second, and 0 us.
C6_EpochPlusOne ==
    (gpsPc = "ret" /\ call.wrote)
      => clock = [sec |-> EpochSeconds(gps) + 1, usec |-> 0]

\* The fix 2024-01-01 00:00:00 has set the clock to 2024-01-01T00:00:01Z.
C6_Witness ==
    /\ gpsPc = "ret"
    /\ call.wrote
    /\ gps = Fix(TRUE, TRUE, 2024, 1, 1, 0, 0, 0)
    /\ clock = [sec |-> 1704067201, usec |-> 0]

\* C7: with PPSavailable, a call that is about to call settimeofday, or has
\* called it, has seen PPSsignal set and has cleared it, in that order.
C7_WriteAfterLatchConsumed ==
    PPSavailable =>
        /\ (gpsPc = "set" \/ call.wrote) => (call.sawSet /\ call.cleared)
        /\ call.cleared => call.sawSet

\* With PPS, a call has set the clock after consuming the latch.
C7_Witness ==
    /\ PPSavailable
    /\ gpsPc = "ret"
    /\ call.wrote
    /\ call.sawSet
    /\ call.cleared

\* C8 as stated: with PPSavailable, PPSsignal is false when a call that set
\* the clock returns.
C8_LatchClearAtReturn ==
    (PPSavailable /\ gpsPc = "ret" /\ call.wrote) => ~PPSsignal

\* C8 amended: with PPSavailable, when a call that set the clock returns,
\* PPSsignal is false unless PPS_ISR ran after the call cleared it.
C8_LatchClearUnlessNewEdge ==
    (PPSavailable /\ gpsPc = "ret" /\ call.wrote)
      => (PPSsignal => call.edgeAfterClear)

\* With PPS, a call that set the clock returns with the latch clear.
C8_Witness ==
    /\ PPSavailable
    /\ gpsPc = "ret"
    /\ call.wrote
    /\ call.cleared
    /\ ~PPSsignal

\* C9: the replies are, in order, one per datagram of at least 48 bytes taken
\* up (the one in progress excepted until it is sent); each is 48 bytes long
\* and addressed to the address and port its datagram came from.
C9_OneReplyToSender ==
    /\ Len(outbound) = IF ntpPc \in { "recv", "tx", "send" }
                       THEN Len(Accepted) - 1 ELSE Len(Accepted)
    /\ \A k \in 1..Len(outbound) :
          /\ Len(outbound[k].data) = 48
          /\ k <= Len(Accepted)
          /\ outbound[k].ip = Accepted[k].ip
          /\ outbound[k].port = Accepted[k].port

\* The 56-byte datagram with version 7 and mode 7 has been answered.
C9_Witness ==
    /\ ntpPc = "ret"
    /\ handled = << Datagram(2, 56) >>
    /\ Len(outbound) = 1
    /\ outbound[1].ip = "10.0.0.9"
    /\ outbound[1].port = 40123

\* C10: once setup found no PPS, readGPSTime is never in the edge wait, never
\* reads or clears PPSsignal, and a call with a valid fix returns having
\* called settimeofday.
C10_NoWaitWithoutPps ==
    (setupPc = "done" /\ ~PPSavailable) =>
        /\ gpsPc \in { "idle", "set", "ret" }
        /\ ~call.readLatch
        /\ ~call.cleared
        /\ ~PPSsignal
        /\ (gpsPc = "ret" /\ gps.dateValid /\ gps.timeValid) => call.wrote

\* Without PPS, a call has set the clock without touching the latch.
C10_Witness ==
    /\ setupPc = "done"
    /\ ~PPSavailable
    /\ gpsPc = "ret"
    /\ call.wrote
    /\ ~call.readLatch
    /\ clock = [sec |-> 1704067201, usec |-> 0]

(***************************************************************************)
(* C11: PPSavailable is decided once by the start-up probe: when the probe *)
(* ends it is true iff a HIGH level was sampled before the 1500 ms window  *)
(* elapsed, and no later step (of gpsTask, ntpTask, the interrupt handler  *)
(* or the rest of setup) changes it.                                       *)
(***************************************************************************)
C11_AvailabilityDecidedByProbe ==
    [][ /\ (setupPc = "probe" /\ setupPc' # "probe")
            => (PPSavailable' <=> elapsed' < ProbeWindowMs)
        /\ setupPc # "probe" => PPSavailable' = PPSavailable ]_vars

\* The probe found the signal, and both tasks and the handler have run since.
C11_Witness ==
    /\ setupPc = "done"
    /\ PPSavailable
    /\ PPSsignal
    /\ outbound # << >>
    /\ gpsPc = "ret" /\ call.wrote

(***************************************************************************)
(* C12: the clock is written only by readGPSTime: no step of               *)
(* handleNTPRequest changes it, the step in which the interrupt handler    *)
(* sets the latch changes no other variable of the program, and the only   *)
(* steps that change the clock are settimeofday in readGPSTime and the     *)
(* passage of time.                                                        *)
(***************************************************************************)
C12_ClockWrittenByGpsTaskOnly ==
    [][ /\ ntpPc' # ntpPc => clock' = clock
        /\ (~PPSsignal /\ PPSsignal')
            => UNCHANGED << setupVars, gps, gpsPc, unixTime, clock, ntpVars >>
        /\ clock' # clock
            => \/ gpsPc = "set" /\ gpsPc' = "ret"
               \/ ticks' # ticks ]_vars

\* The handler has set the latch and a reply was sent while the clock shows
\* the time readGPSTime wrote after time had already passed.
C12_Witness ==
    /\ PPSsignal
    /\ outbound # << >>
    /\ ticks > 0
    /\ gps.dateValid /\ gps.timeValid
    /\ clock = [sec |-> EpochSeconds(gps) + 1, usec |-> 0]

(***************************************************************************)
(* C18: handleNTPRequest reads the clock twice.  The step that fills       *)
(* responseBuffer[0..39] encodes the clock as it is at that step in both   *)
(* the reference and the receive timestamp; the later step that fills      *)
(* responseBuffer[40..47] encodes the clock as it is then and leaves the   *)
(* two earlier timestamps alone; the reply sent is that buffer, so its     *)
(* reference and receive timestamps are identical and only its transmit    *)
(* timestamp shows a clock update made between the two reads.              *)
(***************************************************************************)
C18_ClockReadTwice ==
    [][ /\ (ntpPc = "recv" /\ ntpPc' = "tx")
            => /\ EncodesTruncated(responseBuffer', 17, clock)
               /\ EncodesTruncated(responseBuffer', 33, clock)
        /\ (ntpPc = "tx" /\ ntpPc' = "send")
            => /\ EncodesTruncated(responseBuffer', 41, clock)
               /\ SubSeq(responseBuffer', 17, 40) = SubSeq(responseBuffer, 17, 40)
        /\ (ntpPc = "send" /\ ntpPc' = "ret")
            => /\ Len(outbound') = Len(outbound) + 1
               /\ outbound'[Len(outbound')].data = responseBuffer
        /\ \A k \in 1..Len(outbound') :
              SubSeq(outbound'[k].data, 17, 24) = SubSeq(outbound'[k].data, 33, 40)
      ]_vars

\* A reply whose first read saw the clock of power-up and whose second read
\* saw the time readGPSTime wrote in between.
C18_Witness ==
    /\ outbound # << >>
    /\ gps.dateValid /\ gps.timeValid
    /\ EncodesTruncated(outbound[1].data, 17, [sec |-> 0, usec |-> 0])
    /\ EncodesTruncated(outbound[1].data, 33, [sec |-> 0, usec |-> 0])
    /\ EncodesTruncated(outbound[1].data, 41,
                        [sec |-> EpochSeconds(gps) + 1, usec |-> 0])

(***************************************************************************)
(* C13: once PPSavailable is true, the PPS source has stopped and the      *)
(* latch is clear, things stay so; the next readGPSTime call with a valid  *)
(* fix enters the edge wait, a call that is in the wait stays in it, and   *)
(* no step changes the clock once the call is in the wait.                 *)
(***************************************************************************)
PpsLost == PPSavailable /\ ~ppsAlive /\ ~PPSsignal

C13_WaitNeverEndsWithoutEdges ==
    [][ PpsLost
          => /\ PpsLost'
             /\ (gpsPc = "idle" /\ gpsPc' # "idle"
                   /\ gps'.dateValid /\ gps'.timeValid) => gpsPc' = "wait"
             /\ gpsPc = "wait" => (gpsPc' = "wait" /\ clock' = clock) ]_vars

\* The clock was set from edge 1, then the source stopped: the next call has
\* read the latch as clear and is in the wait.
C13_Witness ==
    /\ PpsLost
    /\ gpsPc = "wait"
    /\ call.readLatch
    /\ track.released = 1
    /\ clock.sec = EpochSeconds(FixOfSecond(1)) + 1

(***************************************************************************)
(* C14: the read that finds the latch set and the write that clears it are *)
(* one atomic step with respect to PPS_ISR: when readGPSTime has cleared   *)
(* the latch, the last edge that had fired by then is the last edge that   *)
(* had fired when the latch was read as set, so the clear erased no edge   *)
(* that the read had not observed.                                         *)
(***************************************************************************)
C14_ClearIsAtomic ==
    (gpsPc = "set" /\ call.cleared) => track.clearedAt = track.seen

(***************************************************************************)
(* C15: with PPSavailable true, the latch that a readGPSTime call reads as *)
(* set was set by an edge that fired after the call computed unixTime: an  *)
(* edge that had already fired by then never releases the wait.            *)
(***************************************************************************)
C15_ReleasingEdgeFollowsFix ==
    (PPSavailable /\ call.sawSet) => track.releasedBy > track.began

(***************************************************************************)
(* C16: with PPSavailable true, one edge per true second and the sentence  *)
(* of second s arriving between edge s and edge s + 1, a readGPSTime call  *)
(* that has called settimeofday has set the clock to the true second       *)
(* marked by the edge it consumed (the edge that set the latch it read, or *)
(* a later edge that had fired by that read).                              *)
(***************************************************************************)
C16_ClockIsSecondOfConsumedEdge ==
    (PPSavailable /\ gpsPc = "ret" /\ call.wrote)
      => \E e \in track.releasedBy..track.seen :
            clock.sec = EpochSeconds(FixOfSecond(e))

(***************************************************************************)
(* C17: the latch coalesces edges.  A wait is released only if an edge has *)
(* fired since the latch was last cleared, so the edges that fire while    *)
(* the latch is set release one wait between them, the waits released      *)
(* never outnumber the edges, and after the clear the next wait stays      *)
(* blocked until a further edge fires.                                     *)
(***************************************************************************)
C17_LatchCoalescesEdges ==
    [][ /\ (gpsPc = "wait" /\ gpsPc' = "clear")
            => /\ track.edges > track.clearedAt
               /\ track'.released <= track.edges
        /\ (gpsPc = "wait" /\ track.edges = track.clearedAt)
            => gpsPc' = "wait" ]_vars

\* Edges 1 and 2 fired while the latch was set and released one wait; the
\* next call has read the latch as clear and is blocked.
C17_Witness ==
    /\ gpsPc = "wait"
    /\ call.readLatch
    /\ ~PPSsignal
    /\ track.edges = 2
    /\ track.clearedAt = 2
    /\ track.released = 1
    /\ clock.sec = EpochSeconds(FixOfSecond(1)) + 1

(***************************************************************************)
(* C19: with PPS edges firing forever and gpsTask scheduled fairly, a      *)
(* readGPSTime call that is in the edge wait (valid fix, PPSavailable      *)
(* true) eventually leaves it and calls settimeofday.                      *)
(***************************************************************************)
C19_WaitEventuallyWrites ==
    (PPSavailable /\ gpsPc = "wait") ~> (gpsPc = "ret" /\ call.wrote)

\* A call that found the latch clear, was released by a later edge and has
\* written the clock.
C19_Witness ==
    /\ PPSavailable
    /\ gpsPc = "ret"
    /\ call.wrote
    /\ call.cleared
    /\ gps.dateValid /\ gps.timeValid
    /\ clock.sec = EpochSeconds(gps) + 1
    /\ ~PPSsignal

(***************************************************************************)
(* C20: ntpTask does not depend on the progress of gpsTask.  Under fair    *)
(* scheduling, when gpsTask is blocked for ever in the edge wait (the PPS  *)
(* source has stopped, the latch is clear) and a datagram of 48 bytes or   *)
(* more is at the head of the receive queue, the reply to it is eventually *)
(* sent to its sender, and its transmit timestamp encodes the clock, which *)
(* holds the value last set.                                               *)
(***************************************************************************)
C20_RepliesWhileGpsBlocked ==
    \A n \in 0..MaxDatagrams : \A d \in { x \in Datagrams : LongEnough(x) } :
        (/\ PpsLost /\ gpsPc = "wait"
         /\ Len(Accepted) = n
         /\ inbound # << >> /\ Head(inbound) = d)
          ~> (/\ PpsLost /\ gpsPc = "wait"
              /\ Len(outbound) > n
              /\ outbound[n + 1].ip = d.ip /\ outbound[n + 1].port = d.port
              /\ EncodesTruncated(outbound[n + 1].data, 41, clock))

\* gpsTask is blocked after the clock was set once, and a reply that carries
\* that clock value has been sent.
C20_Witness ==
    /\ PpsLost
    /\ gpsPc = "wait"
    /\ call.readLatch
    /\ gps.dateValid /\ gps.timeValid
    /\ clock.sec = EpochSeconds(gps) + 1
    /\ outbound # << >>
    /\ outbound[1].rx = clock
    /\ EncodesTruncated(outbound[1].data, 41, clock)

====
